---- MODULE Spec2Model ----
(***************************************************************************)
(* Model of src/db/sysdb_ssh.c: the SSH host cache of sysdb.               *)
(*                                                                         *)
(* A host entry is an ldb message: a DN (keyed by the host name) and a set *)
(* of multi-valued attributes.  sysdb_store_ssh_host merges one alias into *)
(* the stored alias values inside a transaction and writes the entry back; *)
(* sysdb_update_ssh_known_host_expire writes the expiry attribute;         *)
(* sysdb_get_ssh_host and sysdb_get_ssh_known_hosts search the entries.    *)
(*                                                                         *)
(* Every call is synchronous, so each API function is one action.  The     *)
(* outcome of each fallible step inside a call (allocation, store call,    *)
(* transaction call) is an input of the action, the "fault" f.             *)
(***************************************************************************)
EXTENDS Integers, Sequences, FiniteSets, TLC

\* Largest caller-supplied "now" of a write.
MaxNow == 1
\* Largest known_hosts_timeout.
MaxTtl == 1
\* Largest number of alias values a caller supplies in attrs.
MaxStored == 3

(***************************************************************************)
(* Attribute names and values used by the file.                            *)
(***************************************************************************)
SYSDB_OBJECTCLASS == "objectClass"
SYSDB_SSH_HOST_OC == "sshHost"
SYSDB_NAME == "name"
SYSDB_NAME_ALIAS == "nameAlias"
SYSDB_LAST_UPDATE == "lastUpdate"
SYSDB_SSH_KNOWN_HOSTS_EXPIRE == "sshKnownHostsExpire"
\* An attribute the caller of sysdb_store_ssh_host supplies in attrs.
CALLER_ATTR == "region"

AttrKeys ==
  {SYSDB_OBJECTCLASS, SYSDB_NAME, SYSDB_NAME_ALIAS, SYSDB_LAST_UPDATE,
   SYSDB_SSH_KNOWN_HOSTS_EXPIRE, CALLER_ATTR}

\* errno_t values that occur.
EOK == "EOK"
ENOMEM == "ENOMEM"
ENOENT == "ENOENT"
EINVAL == "EINVAL"
EIO == "EIO"

\* A null "const char *alias".
NULL == "<NULL>"

\* A struct sysdb_attrs (and the elements of an ldb message): every
\* attribute has a list of values, empty when the attribute is absent.
NoAttrs == [k \in AttrKeys |-> <<>>]

(***************************************************************************)
(* Time values are stored as decimal strings ("%ld").                      *)
(***************************************************************************)
DigitChars == <<"0", "1", "2", "3", "4", "5", "6", "7", "8", "9">>

\* The decimal digits of n.
FormatNat(n) ==
  LET digits[m \in 0..n] ==
        IF m < 10 THEN <<DigitChars[m + 1]>>
        ELSE Append(digits[m \div 10], DigitChars[(m % 10) + 1])
  IN digits[n]

\* printf("%ld", (long)t)
FormatLong(t) == IF t < 0 THEN <<"-">> \o FormatNat(0 - t) ELSE FormatNat(t)

DigitVal(c) == CHOOSE d \in 0..9 : DigitChars[d + 1] = c

\* The number whose decimal digits are s, read from the left.
ParseNat(s) ==
  LET value[i \in 0..Len(s)] ==
        IF i = 0 THEN 0 ELSE 10 * value[i - 1] + DigitVal(s[i])
  IN value[Len(s)]

\* The store reads a timestamp value back as a number.
ParseLong(s) ==
  IF s # <<>> /\ s[1] = "-" THEN 0 - ParseNat(Tail(s)) ELSE ParseNat(s)

(***************************************************************************)
(* The object store (sysdb custom objects under SSH_HOSTS_SUBDIR).         *)
(* A database d is a function from the names of the stored entries to      *)
(* their attributes.                                                       *)
(***************************************************************************)
\* The order in which a search lists its matches.
HostOrder == <<"host1", "host2">>

sysdb_attrs_add_string(attrs, key, val) ==
  [attrs EXCEPT ![key] = Append(@, val)]

sysdb_attrs_add_val(attrs, key, val) ==
  [attrs EXCEPT ![key] = Append(@, val)]

sysdb_attrs_add_time_t(attrs, key, t) ==
  sysdb_attrs_add_string(attrs, key, FormatLong(t))

\* Create the entry if absent; otherwise replace the attributes present in
\* attrs and leave the others untouched.
sysdb_store_custom(d, name, attrs) ==
  IF name \in DOMAIN d
  THEN [d EXCEPT ![name] =
          [k \in AttrKeys |-> IF attrs[k] # <<>> THEN attrs[k] ELSE @[k]]]
  ELSE [n \in DOMAIN d \cup {name} |-> IF n = name THEN attrs ELSE d[n]]

sysdb_delete_custom(d, name) == [n \in DOMAIN d \ {name} |-> d[n]]

\* A filter "(attr=value)", "(attr>=value)" or "(attr<=value)" matches an
\* entry when one of the values of the attribute satisfies it.
FilterMatches(el, filter) ==
  \E i \in 1..Len(el[filter.attr]) :
    CASE filter.op = "=" -> el[filter.attr][i] = filter.value
      [] filter.op = ">=" ->
           ParseLong(el[filter.attr][i]) >= ParseLong(filter.value)
      [] filter.op = "<=" ->
           ParseLong(el[filter.attr][i]) <= ParseLong(filter.value)

\* The ldb messages of the matching entries, with the requested attributes.
SearchResults(d, dns, attrs) ==
  [i \in 1..Len(dns) |->
     [dn |-> dns[i],
      el |-> [k \in AttrKeys |-> IF k \in attrs THEN d[dns[i]][k] ELSE <<>>]]]

sysdb_search_custom(d, filter, attrs) ==
  SearchResults(d,
                SelectSeq(HostOrder,
                          LAMBDA n : n \in DOMAIN d
                                     /\ FilterMatches(d[n], filter)),
                attrs)

\* The answer of the store when res are the matches.
SearchAnswer(res, filter, f) ==
  IF f.at = "search_custom" THEN [ret |-> f.err, results |-> <<>>]
  ELSE IF res = <<>> THEN [ret |-> ENOENT, results |-> <<>>]
  ELSE IF f.at = "dup" /\ filter.op = "="
    THEN [ret |-> EOK,
          results |-> Append(res, [dn |-> "dup", el |-> res[1].el])]
  ELSE [ret |-> EOK, results |-> res]

\* What the store answers to a search during a call with fault f: an
\* error, ENOENT when nothing matches, or the matches.  A corrupt store
\* (fault "dup") answers a lookup by name with a second entry of that name.
SearchOutcome(d, filter, attrs, f) ==
  SearchAnswer(sysdb_search_custom(d, filter, attrs), filter, f)

\* One store or transaction call made during an API call: the function,
\* its return value and, for a search, the number of results.
Called(fn, r, n) == [fn |-> fn, ret |-> r, n |-> n]

\* Transactions opened and not yet resolved by the calls of a trace: a
\* successful start opens one, a successful commit and any cancel close one.
TxDelta(t) ==
  LET delta[i \in 0..Len(t)] ==
        IF i = 0 THEN 0
        ELSE delta[i - 1]
             + (IF t[i].fn = "transaction_start" /\ t[i].ret = EOK THEN 1
                ELSE IF t[i].fn = "transaction_commit" /\ t[i].ret = EOK
                  THEN 0 - 1
                ELSE IF t[i].fn = "transaction_cancel" THEN 0 - 1
                ELSE 0)
  IN delta[Len(t)]

(***************************************************************************)
(* Faults: the outcome of the fallible steps of one call.  At most one     *)
(* step fails (the first failure ends the call); "at" names it and "err"   *)
(* is what it returns.  A step the call does not reach cannot fail.        *)
(* "cancel" is what sysdb_transaction_cancel returns if it is called, and  *)
(* "durable" whether the payload of a failed commit is persisted.          *)
(***************************************************************************)
Fault(at, err, cancel, durable) ==
  [at |-> at, err |-> err, cancel |-> cancel, durable |-> durable]

NoFault == Fault("none", EOK, EOK, FALSE)

\* Errors of a failing store or transaction call.
StoreErrs == {EIO}

\* Faults of a search: talloc_new and then sysdb_search_custom.
SearchFaults ==
  {NoFault, Fault("search.talloc_new", ENOMEM, EOK, FALSE)}
  \cup {Fault("search_custom", e, EOK, FALSE) : e \in StoreErrs}

\* Faults of a lookup by name.
GetFaults ==
  SearchFaults
  \cup {Fault(p, ENOMEM, EOK, FALSE) : p \in {"get.talloc_new", "get.filter"}}
  \cup {Fault("dup", EOK, EOK, FALSE)}

ListFaults ==
  SearchFaults
  \cup {Fault(p, ENOMEM, EOK, FALSE) :
          p \in {"list.talloc_new", "list.filter"}}

UpdateFaults ==
  {NoFault, Fault("update.talloc_new", ENOMEM, EOK, FALSE)}
  \cup {Fault("store_custom", e, EOK, FALSE) : e \in StoreErrs}

ExpireFaults ==
  UpdateFaults
  \cup {Fault(p, ENOMEM, EOK, FALSE) :
          p \in {"expire.talloc_new", "expire.new_attrs", "expire.add_time"}}

DeleteFaults == {NoFault} \cup {Fault("delete_custom", e, EOK, FALSE) : e \in StoreErrs}

\* Faults of sysdb_store_ssh_host without an alias: no transaction and no
\* lookup are reached.
StoreFaultsNoAlias ==
  {NoFault}
  \cup {Fault(p, ENOMEM, EOK, FALSE) :
          p \in {"store.talloc_new", "store.add_oc", "store.add_name",
                 "store.add_time", "update.talloc_new"}}
  \cup {Fault("store_custom", e, EOK, FALSE) : e \in StoreErrs}

\* Faults of sysdb_store_ssh_host with an alias: those before the
\* transaction, those inside it (followed by a cancel that succeeds or
\* fails) and a failing commit (whose payload is or is not persisted).
StoreFaultsAlias ==
  {NoFault}
  \cup {Fault(p, ENOMEM, EOK, FALSE) :
          p \in {"store.talloc_new", "store.add_oc", "store.add_name"}}
  \cup {Fault("transaction_start", e, EOK, FALSE) : e \in StoreErrs}
  \cup {Fault(p, ENOMEM, c, FALSE) :
          p \in {"get.talloc_new", "get.filter", "search.talloc_new",
                 "store.add_val", "store.add_alias", "store.add_time",
                 "update.talloc_new"},
          c \in {EOK} \cup StoreErrs}
  \cup {Fault("dup", EOK, c, FALSE) : c \in {EOK} \cup StoreErrs}
  \cup {Fault(p, e, c, FALSE) :
          p \in {"search_custom", "store_custom"}, e \in StoreErrs,
          c \in {EOK} \cup StoreErrs}
  \cup {Fault("transaction_commit", e, c, dur) :
          e \in StoreErrs, c \in {EOK} \cup StoreErrs, dur \in BOOLEAN}

StoreFaults(alias) ==
  IF alias = NULL THEN StoreFaultsNoAlias ELSE StoreFaultsAlias

\* The steps of sysdb_store_ssh_host that can fail.
StoreFaultPoints == {f.at : f \in StoreFaultsNoAlias \cup StoreFaultsAlias}

(***************************************************************************)
(* sysdb_update_ssh_host                                                   *)
(***************************************************************************)
\* Faulty variant: a failed write is tried once more.
sysdb_update_ssh_host_retrying(d, name, attrs, f) ==
  IF f.at = "update.talloc_new"
  THEN [ret |-> ENOMEM, db |-> d, trace |-> <<>>]
  ELSE [ret |-> EOK, db |-> sysdb_store_custom(d, name, attrs),
        trace |-> (IF f.at = "store_custom"
                   THEN <<Called("store_custom", f.err, 0)>> ELSE <<>>)
                  \o <<Called("store_custom", EOK, 0)>>]

sysdb_update_ssh_host(d, name, attrs, f) ==
  IF f.at = "update.talloc_new"
  THEN [ret |-> ENOMEM, db |-> d, trace |-> <<>>]
  ELSE IF f.at = "store_custom"
    THEN [ret |-> f.err, db |-> d,
          trace |-> <<Called("store_custom", f.err, 0)>>]
  ELSE [ret |-> EOK, db |-> sysdb_store_custom(d, name, attrs),
        trace |-> <<Called("store_custom", EOK, 0)>>]

(***************************************************************************)
(* sysdb_search_ssh_hosts.  "set" tells whether *hosts and *num_hosts      *)
(* were assigned.                                                          *)
(***************************************************************************)
\* Faulty variant: an error of the search is taken for "no match".
SearchReturnErrorAsNotFound(r) ==
  IF r.ret # EOK
  THEN [ret |-> ENOENT, hosts |-> <<>>, num_hosts |-> 0, set |-> TRUE,
        trace |-> <<Called("search_custom", r.ret, 0)>>]
  ELSE [ret |-> EOK, hosts |-> r.results, num_hosts |-> Len(r.results),
        set |-> TRUE,
        trace |-> <<Called("search_custom", EOK, Len(r.results))>>]

\* After sysdb_search_custom answered r.
SearchReturn(r) ==
  IF r.ret # EOK /\ r.ret # ENOENT
  THEN [ret |-> r.ret, hosts |-> <<>>, num_hosts |-> 0, set |-> FALSE,
        trace |-> <<Called("search_custom", r.ret, 0)>>]
  ELSE IF r.ret = ENOENT
    THEN [ret |-> ENOENT, hosts |-> <<>>, num_hosts |-> 0, set |-> TRUE,
          trace |-> <<Called("search_custom", ENOENT, 0)>>]
  ELSE [ret |-> EOK, hosts |-> r.results, num_hosts |-> Len(r.results),
        set |-> TRUE,
        trace |-> <<Called("search_custom", EOK, Len(r.results))>>]

sysdb_search_ssh_hosts(d, filter, attrs, f) ==
  IF f.at = "search.talloc_new"
  THEN [ret |-> ENOMEM, hosts |-> <<>>, num_hosts |-> 0, set |-> FALSE,
        trace |-> <<>>]
  ELSE SearchReturn(SearchOutcome(d, filter, attrs, f))

(***************************************************************************)
(* sysdb_get_ssh_host.  host is <<>> when *host was not assigned.          *)
(***************************************************************************)

\* Faulty variant: the name is looked up among the aliases.
NameFilterOnAlias(name) ==
  [attr |-> SYSDB_NAME_ALIAS, op |-> "=", value |-> name]

\* Faulty variant: two matches are accepted.
AmbiguousAboveTwo(num_hosts) == num_hosts > 2

\* The filter "(name=<name>)".
NameFilter(name) == [attr |-> SYSDB_NAME, op |-> "=", value |-> name]

\* The check "num_hosts > 1".
Ambiguous(num_hosts) == num_hosts > 1

\* After sysdb_search_ssh_hosts returned s.
GetReturn(s) ==
  IF s.ret # EOK THEN [ret |-> s.ret, host |-> <<>>, trace |-> s.trace]
  ELSE IF Ambiguous(s.num_hosts)
    THEN [ret |-> EINVAL, host |-> <<>>, trace |-> s.trace]
  ELSE [ret |-> EOK, host |-> <<s.hosts[1]>>, trace |-> s.trace]

sysdb_get_ssh_host(d, name, attrs, f) ==
  IF f.at = "get.talloc_new" \/ f.at = "get.filter"
  THEN [ret |-> ENOMEM, host |-> <<>>, trace |-> <<>>]
  ELSE GetReturn(sysdb_search_ssh_hosts(d, NameFilter(name), attrs, f))

(***************************************************************************)
(* sysdb_get_ssh_known_hosts                                               *)
(***************************************************************************)
\* Faulty variant: the comparison is reversed.
KnownHostsFilterReversed(now) ==
  [attr |-> SYSDB_SSH_KNOWN_HOSTS_EXPIRE, op |-> "<=",
   value |-> FormatLong(now)]

\* The filter "(sshKnownHostsExpire>=now)".
KnownHostsFilter(now) ==
  [attr |-> SYSDB_SSH_KNOWN_HOSTS_EXPIRE, op |-> ">=",
   value |-> FormatLong(now)]

\* Faulty variant: ENOENT of the search is turned into EOK.
sysdb_get_ssh_known_hosts_enoent_ok(d, now, attrs, f) ==
  IF f.at = "list.talloc_new" \/ f.at = "list.filter"
  THEN [ret |-> ENOMEM, hosts |-> <<>>, num_hosts |-> 0, set |-> FALSE,
        trace |-> <<>>]
  ELSE [sysdb_search_ssh_hosts(d, KnownHostsFilter(now), attrs, f)
          EXCEPT !.ret = IF @ = ENOENT THEN EOK ELSE @]

sysdb_get_ssh_known_hosts(d, now, attrs, f) ==
  IF f.at = "list.talloc_new" \/ f.at = "list.filter"
  THEN [ret |-> ENOMEM, hosts |-> <<>>, num_hosts |-> 0, set |-> FALSE,
        trace |-> <<>>]
  ELSE sysdb_search_ssh_hosts(d, KnownHostsFilter(now), attrs, f)

(***************************************************************************)
(* sysdb_update_ssh_known_host_expire                                      *)
(***************************************************************************)
\* Faulty variant: the expire time is the timeout alone.
ExpireTimeWithoutNow(now, known_hosts_timeout) == known_hosts_timeout

\* now + known_hosts_timeout
ExpireTime(now, known_hosts_timeout) == now + known_hosts_timeout

\* Faulty variant: the update time is written too.
ExpireAttrsWithLastUpdate(now, known_hosts_timeout) ==
  sysdb_attrs_add_time_t(
    sysdb_attrs_add_time_t(NoAttrs, SYSDB_SSH_KNOWN_HOSTS_EXPIRE,
                           now + known_hosts_timeout),
    SYSDB_LAST_UPDATE, now)

\* The attributes the function builds: the expire time only.
ExpireAttrs(now, known_hosts_timeout) ==
  sysdb_attrs_add_time_t(NoAttrs, SYSDB_SSH_KNOWN_HOSTS_EXPIRE,
                         ExpireTime(now, known_hosts_timeout))

sysdb_update_ssh_known_host_expire(d, name, now, known_hosts_timeout, f) ==
  IF f.at \in {"expire.talloc_new", "expire.new_attrs", "expire.add_time"}
  THEN [ret |-> ENOMEM, db |-> d, trace |-> <<>>]
  ELSE sysdb_update_ssh_host(d, name,
                             ExpireAttrs(now, known_hosts_timeout), f)

(***************************************************************************)
(* sysdb_delete_ssh_host                                                   *)
(***************************************************************************)
sysdb_delete_ssh_host(d, name, f) ==
  IF f.at = "delete_custom"
  THEN [ret |-> f.err, db |-> d,
        trace |-> <<Called("delete_custom", f.err, 0)>>]
  ELSE IF name \notin DOMAIN d
    THEN [ret |-> ENOENT, db |-> d,
          trace |-> <<Called("delete_custom", ENOENT, 0)>>]
  ELSE [ret |-> EOK, db |-> sysdb_delete_custom(d, name),
        trace |-> <<Called("delete_custom", EOK, 0)>>]

(***************************************************************************)
(* sysdb_store_ssh_host                                                    *)
(***************************************************************************)
\* Faulty variant: the name attribute is not added.
AddIdentityWithoutName(attrs, name) ==
  sysdb_attrs_add_string(attrs, SYSDB_OBJECTCLASS, SYSDB_SSH_HOST_OC)

\* The object class and the name, added to the caller's attrs.
AddIdentity(attrs, name) ==
  sysdb_attrs_add_string(
    sysdb_attrs_add_string(attrs, SYSDB_OBJECTCLASS, SYSDB_SSH_HOST_OC),
    SYSDB_NAME, name)

\* Faulty variant: the alias branch is taken without an alias.
HasAliasAlways(alias) == TRUE

\* "if (alias)": the alias branch opens the transaction and reads the entry.
HasAlias(alias) == alias # NULL

\* The alias values of the entry found: ldb_msg_find_element, NULL (no
\* values) when there is no entry or no such element.
AliasElement(host) ==
  IF host = <<>> THEN <<>> ELSE host[1].el[SYSDB_NAME_ALIAS]

\* Faulty variant: every iteration overwrites new_alias.
NewAliasByLast(el, alias) == el = <<>> \/ el[Len(el)] # alias

\* Faulty variant: new_alias starts false.
NewAliasNever(el, alias) == FALSE

\* Faulty variant: new_alias is never cleared.
NewAliasAlways(el, alias) == TRUE

\* new_alias after the loop: no stored value equals alias (strcmp).
NewAlias(el, alias) == ~ \E i \in 1..Len(el) : el[i] = alias

\* Faulty variant: the stored values are not copied.
CopyAliasesNone(attrs, el) == attrs

\* Faulty variant: the loop starts at the second value.
CopyAliasesFromSecond(attrs, el) ==
  [attrs EXCEPT ![SYSDB_NAME_ALIAS] =
     @ \o (IF el = <<>> THEN <<>> ELSE Tail(el))]

\* The loop: every stored value is added to attrs, in order; copied[i] is
\* attrs after i iterations.
CopyAliases(attrs, el) ==
  LET copied[i \in 0..Len(el)] ==
        IF i = 0 THEN attrs
        ELSE sysdb_attrs_add_val(copied[i - 1], SYSDB_NAME_ALIAS, el[i])
  IN copied[Len(el)]

\* Copy the alias values el and add alias if it is new.
MergeValues(attrs, el, alias, f) ==
  IF el # <<>> /\ f.at = "store.add_val"
  THEN [ret |-> ENOMEM, attrs |-> attrs]
  ELSE IF NewAlias(el, alias)
    THEN IF f.at = "store.add_alias"
         THEN [ret |-> ENOMEM, attrs |-> CopyAliases(attrs, el)]
         ELSE [ret |-> EOK,
               attrs |-> sysdb_attrs_add_string(CopyAliases(attrs, el),
                                                SYSDB_NAME_ALIAS, alias)]
  ELSE [ret |-> EOK, attrs |-> CopyAliases(attrs, el)]

\* Faulty variant: the entry found is not read.
MergeAliasIgnoringHost(attrs, host, alias, f) ==
  MergeValues(attrs, <<>>, alias, f)

\* Copy the aliases of the existing entry and add alias if it is new.
MergeAlias(attrs, host, alias, f) ==
  MergeValues(attrs, AliasElement(host), alias, f)

\* Faulty variant: the time is written to the expire attribute.
AddLastUpdateAsExpire(attrs, now) ==
  sysdb_attrs_add_time_t(attrs, SYSDB_SSH_KNOWN_HOSTS_EXPIRE, now)

\* lastUpdate = now
AddLastUpdate(attrs, now) ==
  sysdb_attrs_add_time_t(attrs, SYSDB_LAST_UPDATE, now)

\* Faulty variant: the done label does not cancel.
CancelNever(in_transaction) == FALSE

\* "if (in_transaction)" at the done label: the transaction is cancelled.
CancelNeeded(in_transaction) == in_transaction

\* The done label: d is the database the call leaves behind.
StoreDone(d, ret, trace, in_transaction, f) ==
  [ret |-> ret, db |-> d,
   trace |-> IF CancelNeeded(in_transaction)
             THEN Append(trace, Called("transaction_cancel", f.cancel, 0))
             ELSE trace]

\* Faulty variant: a failed commit is tried once more.
StoreCommitRetrying(d, u, trace, in_transaction, f) ==
  IF u.ret # EOK
  THEN StoreDone(d, u.ret, trace \o u.trace, in_transaction, f)
  ELSE IF in_transaction
    THEN StoreDone(u.db, EOK,
                   (trace \o u.trace)
                   \o (IF f.at = "transaction_commit"
                       THEN <<Called("transaction_commit", f.err, 0)>>
                       ELSE <<>>)
                   \o <<Called("transaction_commit", EOK, 0)>>,
                   FALSE, f)
  ELSE StoreDone(u.db, EOK, trace \o u.trace, FALSE, f)

\* After sysdb_update_ssh_host returned u: the commit.  d is the database
\* at the start of the call, to which a cancelled transaction rolls back.
StoreCommit(d, u, trace, in_transaction, f) ==
  IF u.ret # EOK
  THEN StoreDone(d, u.ret, trace \o u.trace, in_transaction, f)
  ELSE IF in_transaction
    THEN IF f.at = "transaction_commit"
         THEN StoreDone(IF f.durable THEN u.db ELSE d, f.err,
                        Append(trace \o u.trace,
                               Called("transaction_commit", f.err, 0)),
                        TRUE, f)
         ELSE StoreDone(u.db, EOK,
                        Append(trace \o u.trace,
                               Called("transaction_commit", EOK, 0)),
                        FALSE, f)
  ELSE StoreDone(u.db, EOK, trace \o u.trace, FALSE, f)

\* From sysdb_attrs_add_time_t to the commit.
StoreWrite(d, name, attrs, now, trace, in_transaction, f) ==
  IF f.at = "store.add_time"
  THEN StoreDone(d, ENOMEM, trace, in_transaction, f)
  ELSE StoreCommit(d,
                   sysdb_update_ssh_host(d, name, AddLastUpdate(attrs, now),
                                         f),
                   trace, in_transaction, f)

\* After the merge returned m inside the transaction.
StoreMerged(d, name, now, m, trace, f) ==
  IF m.ret # EOK THEN StoreDone(d, m.ret, trace, TRUE, f)
  ELSE StoreWrite(d, name, m.attrs, now, trace, TRUE, f)

\* After sysdb_get_ssh_host returned g inside the transaction.
StoreLookedUp(d, name, alias, now, attrs, g, f) ==
  IF g.ret # EOK /\ g.ret # ENOENT
  THEN StoreDone(d, g.ret,
                 <<Called("transaction_start", EOK, 0)>> \o g.trace, TRUE, f)
  ELSE StoreMerged(d, name, now, MergeAlias(attrs, g.host, alias, f),
                   <<Called("transaction_start", EOK, 0)>> \o g.trace, f)

sysdb_store_ssh_host(d, name, alias, now, attrs, f) ==
  IF f.at = "store.talloc_new"
  THEN [ret |-> ENOMEM, db |-> d, trace |-> <<>>]
  ELSE IF f.at = "store.add_oc" \/ f.at = "store.add_name"
    THEN StoreDone(d, ENOMEM, <<>>, FALSE, f)
  ELSE IF HasAlias(alias)
    THEN IF f.at = "transaction_start"
         THEN StoreDone(d, f.err,
                        <<Called("transaction_start", f.err, 0)>>, FALSE, f)
         ELSE StoreLookedUp(d, name, alias, now, AddIdentity(attrs, name),
                            sysdb_get_ssh_host(d, name, {SYSDB_NAME_ALIAS},
                                               f),
                            f)
  ELSE StoreWrite(d, name, AddIdentity(attrs, name), now, <<>>, FALSE, f)

(***************************************************************************)
(* State.                                                                  *)
(*   db          the stored host entries                                   *)
(*   txOpen      transactions of the store that are open                   *)
(*   call        the last API call and its arguments                       *)
(*   ret         its return value                                          *)
(*   out         its output parameters                                     *)
(*   trace       the store and transaction calls it made, in order         *)
(*   pre         the stored host entries when it was called                *)
(*   justBumped  in a search for live hosts: the expiry update that        *)
(*               succeeded immediately before it, if any; in a lookup by   *)
(*               name: the store of that name that succeeded immediately   *)
(*               before it, if any                                         *)
(*   deleted     the names deleted with success and not stored since       *)
(*   writers     concurrent callers of sysdb_store_ssh_host: the position  *)
(*               of each inside the function and its local variables       *)
(*   raceLog     the caller whose transaction was committed last, and the  *)
(*               aliases of the calls that returned EOK                    *)
(***************************************************************************)
VARIABLES db, txOpen, call, ret, out, trace, pre, justBumped, deleted,
          writers, raceLog

vars ==
  <<db, txOpen, call, ret, out, trace, pre, justBumped, deleted, writers,
    raceLog>>

\* The variables of the sequential calls.
seqVars == <<call, ret, out, trace, pre, justBumped, deleted>>

\* The concurrent callers.
Writers == {"w1", "w2"}

\* A caller outside sysdb_store_ssh_host.
Idle ==
  [pc |-> "idle", name |-> "", alias |-> NULL, attrs |-> NoAttrs,
   read |-> <<>>, ret |-> EOK]

Hosts == {"host1", "host2"}
Aliases == {"a", "b"}
Nows == 0..MaxNow
Ttls == (0 - 1)..MaxTtl
\* "now" of a search for live hosts: up to one past the latest expiry.
ListNows == 0..(MaxNow + MaxTtl + 1)
\* The attrs a caller of sysdb_store_ssh_host passes: host metadata only.
CallerAttrs == {NoAttrs, [NoAttrs EXCEPT ![CALLER_ATTR] = <<"us">>]}

Call(op, name, alias, now, ttl, attrs) ==
  [op |-> op, name |-> name, alias |-> alias, now |-> now, ttl |-> ttl,
   attrs |-> attrs]

NoOut == [hosts |-> <<>>, num_hosts |-> 0, set |-> FALSE]

Init ==
  /\ db = [n \in {} |-> NoAttrs]
  /\ txOpen = 0
  /\ call = Call("init", "", NULL, 0, 0, NoAttrs)
  /\ ret = EOK
  /\ out = NoOut
  /\ trace = <<>>
  /\ pre = [n \in {} |-> NoAttrs]
  /\ justBumped = <<>>
  /\ deleted = {}
  /\ writers = [w \in Writers |-> Idle]
  /\ raceLog = [last |-> NULL, aliases |-> {}]

\* The names deleted and not stored since, after the call c returned r.
DeletedAfter(c, r) ==
  IF c.op = "delete_ssh_host" /\ r.ret = EOK THEN deleted \cup {c.name}
  ELSE IF c.op = "store_ssh_host" THEN deleted \ {c.name}
  ELSE deleted

\* A write call returned r.
Written(c, r) ==
  /\ db' = r.db
  /\ txOpen' = txOpen + TxDelta(r.trace)
  /\ call' = c
  /\ ret' = r.ret
  /\ out' = NoOut
  /\ trace' = r.trace
  /\ pre' = db
  /\ justBumped' = <<>>
  /\ deleted' = DeletedAfter(c, r)
  /\ UNCHANGED <<writers, raceLog>>

StoreSshHost(names, aliases, nows, attrsSet, points) ==
  \E name \in names, alias \in aliases, now \in nows, attrs \in attrsSet :
    \E f \in {g \in StoreFaults(alias) : g.at \in points} :
      Written(Call("store_ssh_host", name, alias, now, 0, attrs),
              sysdb_store_ssh_host(db, name, alias, now, attrs, f))

UpdateExpire(names, nows, ttls) ==
  \E name \in names, now \in nows, ttl \in ttls, f \in ExpireFaults :
    Written(Call("update_expire", name, NULL, now, ttl, NoAttrs),
            sysdb_update_ssh_known_host_expire(db, name, now, ttl, f))

DeleteSshHost(names) ==
  \E name \in names, f \in DeleteFaults :
    Written(Call("delete_ssh_host", name, NULL, 0, 0, NoAttrs),
            sysdb_delete_ssh_host(db, name, f))

\* A read call returned r with the outputs o.
Read(c, r, o, bumped) ==
  /\ call' = c
  /\ ret' = r.ret
  /\ out' = o
  /\ trace' = r.trace
  /\ pre' = db
  /\ justBumped' = bumped
  /\ UNCHANGED <<db, txOpen, deleted, writers, raceLog>>

\* sysdb_get_ssh_host returned r.
ReadHost(c, r) ==
  Read(c, r,
       [hosts |-> r.host, num_hosts |-> Len(r.host), set |-> r.host # <<>>],
       IF call.op = "store_ssh_host" /\ ret = EOK /\ call.name = c.name
       THEN <<[name |-> call.name, alias |-> call.alias, now |-> call.now,
               attrs |-> call.attrs,
               aliases |-> IF call.name \in DOMAIN pre
                           THEN pre[call.name][SYSDB_NAME_ALIAS] ELSE <<>>]>>
       ELSE <<>>)

GetSshHost(names) ==
  \E name \in names, f \in GetFaults :
    ReadHost(Call("get_ssh_host", name, NULL, 0, 0, NoAttrs),
             sysdb_get_ssh_host(db, name, AttrKeys, f))

\* sysdb_get_ssh_known_hosts returned r.
ReadHosts(c, r) ==
  Read(c, r, [hosts |-> r.hosts, num_hosts |-> r.num_hosts, set |-> r.set],
       IF call.op = "update_expire" /\ ret = EOK
       THEN <<[name |-> call.name, now |-> call.now, ttl |-> call.ttl]>>
       ELSE <<>>)

GetSshKnownHosts ==
  \E now \in ListNows, f \in ListFaults :
    ReadHosts(Call("get_ssh_known_hosts", "", NULL, now, 0, NoAttrs),
              sysdb_get_ssh_known_hosts(db, now, AttrKeys, f))

(***************************************************************************)
(* Spec: every call on the entry of one host, with every alias, caller     *)
(* attribute and fault; the expiry is written with one value.              *)
(***************************************************************************)
Next ==
  \/ StoreSshHost({"host1"}, Aliases \cup {NULL}, Nows, CallerAttrs,
                  StoreFaultPoints)
  \/ UpdateExpire({"host1"}, {0}, {0})
  \/ DeleteSshHost({"host1"})
  \/ GetSshHost({"host1"})
  \/ GetSshKnownHosts

Spec == Init /\ [][Next]_vars

(***************************************************************************)
(* SpecLive: the expiry of the entries of two hosts, with every now and    *)
(* timeout; the entries are stored without caller attributes, with at most *)
(* one alias, at one time, and only the write can fail.                    *)
(***************************************************************************)
NextLive ==
  \/ StoreSshHost(Hosts, {NULL, "a"}, {0}, {NoAttrs},
                  {"none", "store_custom"})
  \/ UpdateExpire(Hosts, Nows, Ttls)
  \/ DeleteSshHost(Hosts)
  \/ GetSshKnownHosts

SpecLive == Init /\ [][NextLive]_vars

(***************************************************************************)
(* Concurrent callers of sysdb_store_ssh_host with an alias.  Each step of *)
(* a caller is one action: the transaction start, the lookup and merge,    *)
(* the write, the commit, and the failure of a step inside the transaction *)
(* followed by the cancel.  A write made inside a transaction becomes      *)
(* visible to the others when the transaction is committed, all at once;   *)
(* a lookup sees what is committed.  With "serial" a transaction starts    *)
(* only when no other is open; without it transactions overlap.            *)
(***************************************************************************)
RaceAliases == {"a", "b", "c"}

\* The positions between the transaction start and its commit or cancel.
InTransaction == {"started", "merged", "written"}

\* Lines 77-100: the identity attributes and sysdb_transaction_start.
RaceStart(w, serial) ==
  \E alias \in RaceAliases :
    /\ writers[w].pc = "idle"
    /\ serial => \A v \in Writers : writers[v].pc \notin InTransaction
    /\ writers' = [writers EXCEPT ![w] =
                     [pc |-> "started", name |-> "host1", alias |-> alias,
                      attrs |-> AddIdentity(NoAttrs, "host1"), read |-> <<>>,
                      ret |-> EOK]]
    /\ txOpen' = txOpen + 1
    /\ UNCHANGED <<db, raceLog, seqVars>>

\* The caller after sysdb_get_ssh_host returned g and the merge m.
RaceMerged(w, g, m) ==
  [writers[w] EXCEPT !.pc = "merged", !.attrs = m.attrs,
                     !.read = AliasElement(g.host)]

\* Lines 103-138: the lookup of the committed entry and the merge.
RaceLookup(w) ==
  /\ writers[w].pc = "started"
  /\ writers' =
       [writers EXCEPT ![w] =
          RaceMerged(w,
                     sysdb_get_ssh_host(db, writers[w].name,
                                        {SYSDB_NAME_ALIAS}, NoFault),
                     MergeAlias(writers[w].attrs,
                                sysdb_get_ssh_host(db, writers[w].name,
                                                   {SYSDB_NAME_ALIAS},
                                                   NoFault).host,
                                writers[w].alias, NoFault))]
  /\ UNCHANGED <<db, txOpen, raceLog, seqVars>>

\* Lines 141-152: lastUpdate and the write, made inside the transaction.
RaceWrite(w) ==
  /\ writers[w].pc = "merged"
  /\ writers' = [writers EXCEPT ![w].pc = "written",
                                ![w].attrs = AddLastUpdate(@, 0)]
  /\ UNCHANGED <<db, txOpen, raceLog, seqVars>>

\* Lines 154-164: the commit makes the write visible; the call returns EOK.
RaceCommit(w) ==
  /\ writers[w].pc = "written"
  /\ db' = sysdb_update_ssh_host(db, writers[w].name, writers[w].attrs,
                                 NoFault).db
  /\ writers' = [writers EXCEPT ![w].pc = "done", ![w].ret = EOK]
  /\ txOpen' = txOpen - 1
  /\ raceLog' = [last |-> w,
                 aliases |-> raceLog.aliases \cup {writers[w].alias}]
  /\ UNCHANGED seqVars

\* Lines 166-176: a step inside the transaction fails; the transaction is
\* cancelled and the call returns the error.
RaceFail(w) ==
  /\ writers[w].pc \in InTransaction
  /\ writers' = [writers EXCEPT ![w].pc = "done", ![w].ret = EIO]
  /\ txOpen' = txOpen - 1
  /\ UNCHANGED <<db, raceLog, seqVars>>

\* The caller goes on and may call again.
RaceReturn(w) ==
  /\ writers[w].pc = "done"
  /\ writers' = [writers EXCEPT ![w] = Idle]
  /\ UNCHANGED <<db, txOpen, raceLog, seqVars>>

(***************************************************************************)
(* SpecRace: two callers whose transactions overlap.                       *)
(***************************************************************************)
NextRace ==
  \E w \in Writers :
    \/ RaceStart(w, FALSE)
    \/ RaceLookup(w)
    \/ RaceWrite(w)
    \/ RaceCommit(w)
    \/ RaceFail(w)
    \/ RaceReturn(w)

SpecRace == Init /\ [][NextRace]_vars

(***************************************************************************)
(* SpecSerial: two callers under a store whose transactions are            *)
(* serializable: one transaction is open at a time.                        *)
(***************************************************************************)
NextSerial ==
  \E w \in Writers :
    \/ RaceStart(w, TRUE)
    \/ RaceLookup(w)
    \/ RaceWrite(w)
    \/ RaceCommit(w)
    \/ RaceFail(w)
    \/ RaceReturn(w)

SpecSerial == Init /\ [][NextSerial]_vars

(***************************************************************************)
(* SpecMerge: the alias merge on stored alias values of every shape.  A    *)
(* call without an alias whose attrs hold alias values stores them as      *)
(* they are, repeated values included; a call with an alias merges.        *)
(***************************************************************************)
\* The alias values a caller supplies in attrs: up to MaxStored values.
AliasLists == UNION {[1..n -> RaceAliases] : n \in 0..MaxStored}

AliasAttrs == {[NoAttrs EXCEPT ![SYSDB_NAME_ALIAS] = L] : L \in AliasLists}

NextMerge ==
  \/ StoreSshHost({"host1"}, {NULL}, {0}, AliasAttrs, {"none"})
  \/ StoreSshHost({"host1"}, RaceAliases, {0}, {NoAttrs}, {"none"})

SpecMerge == Init /\ [][NextMerge]_vars

TypeOK ==
  /\ DOMAIN db \subseteq Hosts
  /\ txOpen \in Int
  /\ ret \in {EOK, ENOMEM, ENOENT, EINVAL, EIO}

(***************************************************************************)
(* Properties.                                                             *)
(***************************************************************************)
Range(s) == {s[i] : i \in 1..Len(s)}

\* The values of attribute k of the entry n of d; none without an entry.
AttrOf(d, n, k) == IF n \in DOMAIN d THEN d[n][k] ELSE <<>>

\* The entries other than n are the same in d and e.
SameExcept(d, e, n) ==
  /\ DOMAIN d \ {n} = DOMAIN e \ {n}
  /\ \A m \in DOMAIN d \ {n} : d[m] = e[m]

\* The last call made the store or transaction call fn.
HasCalled(fn) == \E i \in 1..Len(trace) : trace[i].fn = fn

\* The last call made the call fn and it returned r.
HasCalledRet(fn, r) ==
  \E i \in 1..Len(trace) : trace[i].fn = fn /\ trace[i].ret = r

\* The attribute holds the single time t.
IsTime(el, t) == Len(el) = 1 /\ ParseLong(el[1]) = t

StoreCall == call.op = "store_ssh_host"

\* C1: a successful sysdb_store_ssh_host with an alias for a name without
\* a stored entry leaves an entry for the name whose aliases are exactly
\* the alias, whose lastUpdate is now, and which has the object class and
\* the name attribute.
FirstStoreCreatesEntry ==
  (StoreCall /\ ret = EOK /\ call.alias # NULL /\ call.name \notin DOMAIN pre)
  => /\ call.name \in DOMAIN db
     /\ db[call.name][SYSDB_NAME_ALIAS] = <<call.alias>>
     /\ IsTime(db[call.name][SYSDB_LAST_UPDATE], call.now)
     /\ db[call.name][SYSDB_OBJECTCLASS] = <<SYSDB_SSH_HOST_OC>>
     /\ db[call.name][SYSDB_NAME] = <<call.name>>

FirstStoreWitness ==
  /\ StoreCall /\ ret = EOK /\ call.alias = "b" /\ call.now = MaxNow
  /\ call.name \notin DOMAIN pre
  /\ call.name \in DOMAIN db

\* The alias values a store of the alias would write for the entry n of d.
AliasesAfterStore(d, n, alias) ==
  sysdb_store_ssh_host(d, n, alias, 0, NoAttrs, NoFault)
    .db[n][SYSDB_NAME_ALIAS]

\* C2: a successful sysdb_store_ssh_host with an alias for a name whose
\* stored alias set is A leaves the alias set A \cup {alias} when the alias
\* is not in A, and leaves the aliases as they are when it is in A; storing
\* the same alias again does not change them.
StoreMergesAlias ==
  (StoreCall /\ ret = EOK /\ call.alias # NULL /\ call.name \in DOMAIN pre)
  => LET A == pre[call.name][SYSDB_NAME_ALIAS]
         B == AttrOf(db, call.name, SYSDB_NAME_ALIAS)
     IN /\ call.name \in DOMAIN db
        /\ call.alias \notin Range(A)
             => Range(B) = Range(A) \cup {call.alias}
        /\ call.alias \in Range(A) => B = A
        /\ AliasesAfterStore(db, call.name, call.alias) = B

StoreMergesAliasWitness ==
  /\ StoreCall /\ ret = EOK /\ call.alias # NULL
  /\ call.name \in DOMAIN pre
  /\ Range(pre[call.name][SYSDB_NAME_ALIAS]) = Aliases
  /\ db[call.name][SYSDB_NAME_ALIAS] = pre[call.name][SYSDB_NAME_ALIAS]

TransactionCalls ==
  {"transaction_start", "transaction_commit", "transaction_cancel"}

\* C3: sysdb_store_ssh_host without an alias makes no lookup of the entry
\* and no transaction start, commit or cancel; when it succeeds, lastUpdate
\* is now, the object class and the name are set, the attributes the caller
\* gave have the caller's values, and the aliases and every other attribute
\* are as before.
StoreWithoutAliasFrame ==
  (StoreCall /\ call.alias = NULL)
  => /\ \A i \in 1..Len(trace) :
          trace[i].fn \notin TransactionCalls \cup {"search_custom"}
     /\ txOpen = 0
     /\ SameExcept(db, pre, call.name)
     /\ ret # EOK => db = pre
     /\ ret = EOK =>
          /\ call.name \in DOMAIN db
          /\ IsTime(db[call.name][SYSDB_LAST_UPDATE], call.now)
          /\ db[call.name][SYSDB_OBJECTCLASS] = <<SYSDB_SSH_HOST_OC>>
          /\ db[call.name][SYSDB_NAME] = <<call.name>>
          /\ \A k \in AttrKeys \ {SYSDB_LAST_UPDATE, SYSDB_OBJECTCLASS,
                                  SYSDB_NAME} :
               db[call.name][k] =
                 IF call.attrs[k] # <<>> THEN call.attrs[k]
                 ELSE AttrOf(pre, call.name, k)

StoreWithoutAliasWitness ==
  /\ StoreCall /\ call.alias = NULL /\ ret = EOK
  /\ call.attrs[CALLER_ATTR] # <<>>
  /\ call.name \in DOMAIN pre
  /\ pre[call.name][SYSDB_NAME_ALIAS] # <<>>
  /\ pre[call.name][SYSDB_SSH_KNOWN_HOSTS_EXPIRE] # <<>>
  /\ pre[call.name][CALLER_ATTR] = <<>>
  /\ ~ IsTime(pre[call.name][SYSDB_LAST_UPDATE], call.now)

\* The stored aliases followed by the alias if no stored value equals it.
MergedAliases(A, alias) ==
  IF alias \in Range(A) THEN A ELSE Append(A, alias)

\* C4: after sysdb_store_ssh_host with an alias, either the entry holds
\* all the aliases stored before plus the new alias, or the database is as
\* it was before the call; it is as before whenever a step from the lookup
\* to the write failed and the transaction was cancelled, and the entry
\* holds the merged aliases whenever the call succeeded.
StoreAllOrNothing ==
  (StoreCall /\ call.alias # NULL)
  => LET merged ==
           MergedAliases(AttrOf(pre, call.name, SYSDB_NAME_ALIAS), call.alias)
         full ==
           /\ call.name \in DOMAIN db
           /\ db[call.name][SYSDB_NAME_ALIAS] = merged
           /\ IsTime(db[call.name][SYSDB_LAST_UPDATE], call.now)
           /\ SameExcept(db, pre, call.name)
     IN /\ full \/ db = pre
        /\ ret = EOK => full
        /\ (ret # EOK /\ ~ HasCalled("transaction_commit")) => db = pre

StoreRolledBackWitness ==
  /\ StoreCall /\ call.alias # NULL /\ ret # EOK
  /\ HasCalledRet("store_custom", EOK)
  /\ HasCalledRet("transaction_cancel", EOK)
  /\ db = pre
  /\ call.name \in DOMAIN pre
  /\ call.alias \notin Range(pre[call.name][SYSDB_NAME_ALIAS])
  /\ pre[call.name][SYSDB_NAME_ALIAS] # <<>>

\* C5: when sysdb_store_ssh_host returns no transaction is open.  If the
\* transaction start fails nothing else is called; if it succeeds the call
\* ends with the one successful commit and returns EOK, or ends with a
\* cancel and returns an error; every failure after the start is followed
\* by a cancel.
StoreTransactionPaired ==
  StoreCall
  => /\ txOpen = 0
     /\ (trace # <<>> /\ trace[1].fn = "transaction_start"
           /\ trace[1].ret # EOK)
          => (Len(trace) = 1 /\ ret = trace[1].ret)
     /\ ~ HasCalledRet("transaction_start", EOK)
          => (~ HasCalled("transaction_commit")
              /\ ~ HasCalled("transaction_cancel"))
     /\ HasCalledRet("transaction_start", EOK)
          => /\ trace[1].fn = "transaction_start"
             /\ Cardinality({i \in 1..Len(trace) :
                               trace[i].fn \in TransactionCalls
                               /\ i > 1 /\ i < Len(trace)})
                  = IF HasCalled("transaction_cancel")
                       /\ HasCalled("transaction_commit") THEN 1 ELSE 0
             /\ \/ /\ ret = EOK
                   /\ trace[Len(trace)] = Called("transaction_commit", EOK, 0)
                   /\ ~ HasCalled("transaction_cancel")
                \/ /\ ret # EOK
                   /\ trace[Len(trace)].fn = "transaction_cancel"
                   /\ ~ HasCalledRet("transaction_commit", EOK)

StoreCancelledWitness ==
  /\ StoreCall /\ ret = EIO
  /\ trace = <<Called("transaction_start", EOK, 0),
               Called("search_custom", EIO, 0),
               Called("transaction_cancel", EOK, 0)>>

\* The store answered the lookup by name with two or more matches.
TwoMatches ==
  \E i \in 1..Len(trace) :
    trace[i].fn = "search_custom" /\ trace[i].ret = EOK /\ trace[i].n >= 2

\* C6: when the store answers the lookup by name with two or more matches,
\* sysdb_store_ssh_host and sysdb_get_ssh_host return EINVAL, nothing is
\* written, and no transaction is open afterwards.
AmbiguousNameFails ==
  ((StoreCall \/ call.op = "get_ssh_host") /\ TwoMatches)
  => /\ ret = EINVAL
     /\ ~ HasCalled("store_custom")
     /\ db = pre
     /\ txOpen = 0
     /\ out.hosts = <<>>

AmbiguousStoreWitness ==
  /\ StoreCall /\ TwoMatches /\ ret = EINVAL
  /\ HasCalled("transaction_cancel")

ListCall == call.op = "get_ssh_known_hosts"

\* The search for live hosts reached the store and the store answered it.
ListAnswered ==
  /\ ListCall
  /\ Len(trace) = 1
  /\ trace[1].fn = "search_custom"
  /\ trace[1].ret \in {EOK, ENOENT}

\* The names of the entries the last call returned.
Listed == {out.hosts[i].dn : i \in 1..Len(out.hosts)}

\* C7 as stated: for every timeout, sysdb_get_ssh_known_hosts(now) right
\* after a successful sysdb_update_ssh_known_host_expire(name, now, timeout)
\* returns name, and sysdb_get_ssh_known_hosts(now + timeout + 1) does not.
ListAfterExpireAnyTimeout ==
  (ListAnswered /\ justBumped # <<>>)
  => LET b == justBumped[1]
     IN /\ call.now = b.now => b.name \in Listed
        /\ call.now = b.now + b.ttl + 1 => b.name \notin Listed

\* C7: for every timeout that is not negative, sysdb_get_ssh_known_hosts(now)
\* right after a successful sysdb_update_ssh_known_host_expire(name, now,
\* timeout) returns name; for every timeout,
\* sysdb_get_ssh_known_hosts(now + timeout + 1) does not return it.
ListAfterExpire ==
  (ListAnswered /\ justBumped # <<>>)
  => LET b == justBumped[1]
     IN /\ (call.now = b.now /\ b.ttl >= 0) => b.name \in Listed
        /\ call.now = b.now + b.ttl + 1 => b.name \notin Listed

ListAfterExpireWitness ==
  /\ ListAnswered /\ justBumped # <<>>
  /\ justBumped[1].ttl = MaxTtl
  /\ justBumped[1].now = MaxNow
  /\ call.now = justBumped[1].now
  /\ justBumped[1].name \in Listed

\* C8: sysdb_update_ssh_known_host_expire makes one store write and no
\* transaction call; when it succeeds the expire attribute of the entry is
\* now + timeout and every other attribute and entry is as before; when it
\* fails nothing changes.
ExpireWritesOneAttribute ==
  call.op = "update_expire"
  => /\ \A i \in 1..Len(trace) : trace[i].fn = "store_custom"
     /\ Len(trace) <= 1
     /\ txOpen = 0
     /\ SameExcept(db, pre, call.name)
     /\ ret # EOK => db = pre
     /\ ret = EOK =>
          /\ trace = <<Called("store_custom", EOK, 0)>>
          /\ call.name \in DOMAIN db
          /\ IsTime(db[call.name][SYSDB_SSH_KNOWN_HOSTS_EXPIRE],
                    call.now + call.ttl)
          /\ \A k \in AttrKeys \ {SYSDB_SSH_KNOWN_HOSTS_EXPIRE} :
               db[call.name][k] = AttrOf(pre, call.name, k)

ExpireWritesWitness ==
  /\ call.op = "update_expire" /\ ret = EOK
  /\ call.now = MaxNow /\ call.ttl = MaxTtl
  /\ call.name \in DOMAIN pre
  /\ pre[call.name][SYSDB_NAME_ALIAS] # <<>>
  /\ pre[call.name][SYSDB_SSH_KNOWN_HOSTS_EXPIRE] # <<>>
  /\ ~ IsTime(pre[call.name][SYSDB_LAST_UPDATE], call.now)
  /\ db # pre

\* No entry of d has an expire time at or after now.
NoLiveEntry(d, now) ==
  \A n \in DOMAIN d :
    \A i \in 1..Len(d[n][SYSDB_SSH_KNOWN_HOSTS_EXPIRE]) :
      ParseLong(d[n][SYSDB_SSH_KNOWN_HOSTS_EXPIRE][i]) < now

\* C9 as stated: when no entry has an expire time at or after now,
\* sysdb_get_ssh_known_hosts returns success with no hosts.
ListEmptyIsSuccess ==
  (ListAnswered /\ NoLiveEntry(db, call.now))
  => (ret = EOK /\ out.hosts = <<>>)

\* C9: when no entry has an expire time at or after now,
\* sysdb_get_ssh_known_hosts returns ENOENT, which no failing step returns,
\* with *hosts set to no hosts and *num_hosts to 0.
ListEmptyIsNotFound ==
  /\ (ListAnswered /\ NoLiveEntry(db, call.now))
       => (ret = ENOENT /\ out.set /\ out.hosts = <<>> /\ out.num_hosts = 0)
  /\ (ListCall /\ ~ ListAnswered) => (ret \in {ENOMEM, EIO} /\ ~ out.set)

ListEmptyWitness ==
  /\ ListAnswered /\ ret = ENOENT /\ out.set
  /\ \E n \in DOMAIN db : db[n][SYSDB_SSH_KNOWN_HOSTS_EXPIRE] # <<>>
  /\ NoLiveEntry(db, call.now)

\* The entries of d whose expire time is set and at or after now.
LiveSet(d, now) ==
  {n \in DOMAIN d :
     /\ d[n][SYSDB_SSH_KNOWN_HOSTS_EXPIRE] # <<>>
     /\ ParseLong(d[n][SYSDB_SSH_KNOWN_HOSTS_EXPIRE][1]) >= now}

\* C10: after any sequence of stores, expire updates and deletes,
\* sysdb_get_ssh_known_hosts(now) returns exactly the stored entries whose
\* expire time is set and at or after now, each once.
ListReturnsLive ==
  ListAnswered
  => /\ Listed = LiveSet(db, call.now)
     /\ Len(out.hosts) = Cardinality(Listed)
     /\ out.num_hosts = Len(out.hosts)

ListReturnsLiveWitness ==
  /\ ListAnswered /\ ret = EOK
  /\ \E n \in Listed, m \in DOMAIN db \ Listed :
       /\ IsTime(db[n][SYSDB_SSH_KNOWN_HOSTS_EXPIRE], call.now)
       /\ IsTime(db[m][SYSDB_SSH_KNOWN_HOSTS_EXPIRE], call.now - 1)
       /\ pre = db

GetCall == call.op = "get_ssh_host"

\* The lookup by name reached the store and the store answered it.
GetAnswered ==
  /\ GetCall
  /\ Len(trace) = 1
  /\ trace[1].fn = "search_custom"
  /\ trace[1].ret \in {EOK, ENOENT}

\* No entry of d has the name attribute n.
NoMatch(d, n) == \A m \in DOMAIN d : n \notin Range(d[m][SYSDB_NAME])

\* C11: sysdb_get_ssh_host returns ENOENT, without a host, whenever the
\* store answers that no entry matches the name, and returns ENOENT in no
\* other case (a failing step returns another error, a match returns the
\* host or EINVAL); after a successful delete of the name and no store of
\* it since, it returns ENOENT.
GetNotFound ==
  /\ GetAnswered
       => /\ NoMatch(db, call.name) => (ret = ENOENT /\ out.hosts = <<>>)
          /\ call.name \in deleted => ret = ENOENT
          /\ ret = ENOENT => NoMatch(db, call.name)
  /\ (GetCall /\ ~ GetAnswered) => ret \in {ENOMEM, EIO}

GetNotFoundWitness ==
  /\ GetAnswered /\ ret = ENOENT
  /\ call.name \in deleted
  /\ call.name \in DOMAIN db

\* C12: sysdb_get_ssh_host right after a successful sysdb_store_ssh_host of
\* the same name, answered by a store that holds one entry of that name,
\* returns EOK and one host whose object class, name and caller-given
\* attributes are the values written, whose aliases are the aliases stored
\* before merged with the alias, and whose lastUpdate is now.
GetAfterStore ==
  (GetAnswered /\ ~ TwoMatches /\ justBumped # <<>>)
  => LET s == justBumped[1]
     IN /\ ret = EOK
        /\ out.num_hosts = 1
        /\ out.hosts[1].dn = s.name
        /\ out.hosts[1].el[SYSDB_OBJECTCLASS] = <<SYSDB_SSH_HOST_OC>>
        /\ out.hosts[1].el[SYSDB_NAME] = <<s.name>>
        /\ out.hosts[1].el[SYSDB_NAME_ALIAS] =
             IF s.alias = NULL THEN s.aliases
             ELSE MergedAliases(s.aliases, s.alias)
        /\ IsTime(out.hosts[1].el[SYSDB_LAST_UPDATE], s.now)
        /\ \A k \in AttrKeys :
             s.attrs[k] # <<>> => out.hosts[1].el[k] = s.attrs[k]

GetAfterStoreWitness ==
  /\ GetAnswered /\ ret = EOK /\ justBumped # <<>>
  /\ justBumped[1].alias = "b"
  /\ justBumped[1].aliases = <<"a">>
  /\ justBumped[1].now = MaxNow
  /\ justBumped[1].attrs[CALLER_ATTR] = <<"us">>
  /\ out.hosts[1].el[SYSDB_NAME_ALIAS] = <<"a", "b">>

\* The callers v and w both returned EOK after reading the same stored
\* aliases, which held neither of their two different aliases, and the
\* transaction of w was committed last.
BothCommitted(v, w) ==
  /\ v # w
  /\ writers[v].pc = "done" /\ writers[v].ret = EOK
  /\ writers[w].pc = "done" /\ writers[w].ret = EOK
  /\ writers[v].name = writers[w].name
  /\ writers[v].read = writers[w].read
  /\ writers[v].alias # writers[w].alias
  /\ writers[v].alias \notin Range(writers[v].read)
  /\ writers[w].alias \notin Range(writers[w].read)
  /\ raceLog.last = w

\* C13: under transactions that only hide partial writes, when two
\* overlapping calls of sysdb_store_ssh_host for one name with different
\* new aliases a and b both read the stored aliases A and both commit, the
\* entry holds A followed by the alias of the call committed last and not
\* the alias of the other call.
LostUpdate ==
  \A v, w \in Writers :
    BothCommitted(v, w)
    => /\ db[writers[w].name][SYSDB_NAME_ALIAS] =
            Append(writers[w].read, writers[w].alias)
       /\ writers[v].alias
            \notin Range(db[writers[w].name][SYSDB_NAME_ALIAS])

LostUpdateWitness ==
  \E v, w \in Writers :
    /\ BothCommitted(v, w)
    /\ writers[w].read = <<"c">>
    /\ writers[v].alias = "a"
    /\ db["host1"][SYSDB_NAME_ALIAS] = <<"c", "b">>

\* The last call, made again on the database it was made on, with fault f.
CallWith(f) ==
  CASE call.op = "store_ssh_host" ->
         sysdb_store_ssh_host(pre, call.name, call.alias, call.now,
                              call.attrs, f)
    [] call.op = "update_expire" ->
         sysdb_update_ssh_known_host_expire(pre, call.name, call.now,
                                            call.ttl, f)
    [] call.op = "get_ssh_host" ->
         sysdb_get_ssh_host(pre, call.name, AttrKeys, f)
    [] call.op = "get_ssh_known_hosts" ->
         sysdb_get_ssh_known_hosts(pre, call.now, AttrKeys, f)

\* The faults of the last call.
CallFaults ==
  CASE call.op = "store_ssh_host" -> StoreFaults(call.alias)
    [] call.op = "update_expire" -> ExpireFaults
    [] call.op = "get_ssh_host" -> GetFaults
    [] call.op = "get_ssh_known_hosts" -> ListFaults

\* The four functions whose failures C14 is about.
ReportingCall ==
  call.op \in {"store_ssh_host", "update_expire", "get_ssh_host",
               "get_ssh_known_hosts"}

\* The store or transaction call e failed (a search that finds nothing
\* has not failed).
StepFailed(e) ==
  /\ e.ret # EOK
  /\ ~ (e.fn = "search_custom" /\ e.ret = ENOENT)

\* The call of the trace t whose failure ended the API call.
EndedBy(t, fn) ==
  \E i \in 1..Len(t) : t[i].fn = fn /\ StepFailed(t[i])

\* The kind of failure of a call that returned r.
FailureKind(r) ==
  IF EndedBy(r.trace, "transaction_commit") THEN "TransactionCommitFailure"
  ELSE IF \E fn \in {"transaction_start", "search_custom", "store_custom"} :
            EndedBy(r.trace, fn)
    THEN "StoreFailure"
  ELSE IF \E i \in 1..Len(r.trace) : r.trace[i].n >= 2 THEN "Ambiguous"
  ELSE IF r.ret = ENOENT THEN "NotFound"
  ELSE IF r.ret # EOK THEN "ResourceExhausted"
  ELSE "Success"

\* The transaction cancel of a call that returned r failed.
CancelFailed(r) == EndedBy(r.trace, "transaction_cancel")

\* What each fault of the last call leads to: the kind of failure, whether
\* the cancel failed, and the value returned.
Outcomes ==
  {<<FailureKind(CallWith(f)), CancelFailed(CallWith(f)), CallWith(f).ret>> :
     f \in CallFaults}

\* C14 as stated: the value a call returns tells the kind of the failure
\* (ResourceExhausted, NotFound, Ambiguous, StoreFailure,
\* TransactionCommitFailure) and tells a failed transaction cancel: two
\* outcomes that differ in the kind or in the failure of the cancel return
\* different values.
FailuresDistinguished ==
  ReportingCall
  => \A x, y \in Outcomes :
       (x[1] # y[1] \/ x[2] # y[2]) => x[3] # y[3]

\* C14: every failing step other than the transaction cancel ends the call
\* with that step's own error: a failing store or transaction call with
\* the store's error (the same for a write and a commit), a search without
\* a match in the two lookups with ENOENT, two matches with EINVAL; a call
\* that returns EOK under a fault did what the call without fault does; and
\* a failing cancel is not reported: the call returns what it returns
\* when the cancel succeeds.
FailuresPropagated ==
  ReportingCall
  => /\ \A i \in 1..Len(trace) :
          (trace[i].fn # "transaction_cancel" /\ StepFailed(trace[i]))
          => ret = trace[i].ret
     /\ (HasCalledRet("search_custom", ENOENT) /\ ~ StoreCall)
          => ret = ENOENT
     /\ TwoMatches => ret = EINVAL
     /\ \A f \in CallFaults :
          /\ CallWith(f).ret = EOK => CallWith(f) = CallWith(NoFault)
          /\ CallWith([f EXCEPT !.cancel = EIO]).ret = CallWith(f).ret

FailuresPropagatedWitness ==
  /\ StoreCall /\ ret = EIO
  /\ HasCalledRet("transaction_commit", EIO)
  /\ HasCalledRet("transaction_cancel", EIO)

\* The commit of the last sysdb_store_ssh_host failed after its write
\* succeeded.
CommitFailed ==
  /\ StoreCall
  /\ HasCalledRet("store_custom", EOK)
  /\ EndedBy(trace, "transaction_commit")

\* The store and transaction calls of the trace t, by function.
CallsOf(t, fn) == {i \in 1..Len(t) : t[i].fn = fn}

\* C15 as stated: when the commit fails after the write succeeded,
\* sysdb_store_ssh_host returns a value that no failure of the write
\* returns, makes the write and the commit once, and leaves no transaction
\* open.
CommitFailureDistinct ==
  CommitFailed
  => /\ \A f \in StoreFaults(call.alias) :
          f.at = "store_custom" => CallWith(f).ret # ret
     /\ Cardinality(CallsOf(trace, "store_custom")) = 1
     /\ Cardinality(CallsOf(trace, "transaction_commit")) = 1
     /\ txOpen = 0

\* C15: when the commit fails after the write succeeded,
\* sysdb_store_ssh_host returns the error of the commit, which is an error
\* of the store as the error of a failed write is; it makes the write and
\* the commit once each, cancels the transaction, and leaves no
\* transaction open; the database is as before the call or as the call
\* without failure leaves it.
CommitFailureReturned ==
  CommitFailed
  => /\ \A i \in CallsOf(trace, "transaction_commit") : ret = trace[i].ret
     /\ ret \in StoreErrs
     /\ \E f \in StoreFaults(call.alias) :
          f.at = "store_custom" /\ CallWith(f).ret = ret
     /\ Cardinality(CallsOf(trace, "store_custom")) = 1
     /\ Cardinality(CallsOf(trace, "transaction_commit")) = 1
     /\ trace[Len(trace)].fn = "transaction_cancel"
     /\ trace[Len(trace) - 1].fn = "transaction_commit"
     /\ txOpen = 0
     /\ db \in {pre, CallWith(NoFault).db}

CommitFailureWitness ==
  /\ CommitFailed /\ ret = EIO
  /\ db # pre
  /\ call.name \in DOMAIN pre

\* C16: when one transaction is open at a time, the entry holds the alias
\* of every sysdb_store_ssh_host call that returned EOK, whatever the
\* order of the calls, and after each such call it holds the aliases the
\* call found stored together with the alias of the call.
SerialKeepsAliases ==
  /\ raceLog.aliases # {}
       => /\ "host1" \in DOMAIN db
          /\ raceLog.aliases \subseteq Range(db["host1"][SYSDB_NAME_ALIAS])
  /\ \A w \in Writers :
       (writers[w].pc = "done" /\ writers[w].ret = EOK)
       => Range(writers[w].read) \cup {writers[w].alias}
            \subseteq Range(db[writers[w].name][SYSDB_NAME_ALIAS])

SerialKeepsAliasesWitness ==
  /\ raceLog.aliases = RaceAliases
  /\ db["host1"][SYSDB_NAME_ALIAS] = <<"c", "a", "b">>
  /\ \A w \in Writers : writers[w].pc = "done" /\ writers[w].ret = EOK

\* The store and transaction calls a sysdb_store_ssh_host call can make.
StoreSteps ==
  {"transaction_start", "search_custom", "store_custom",
   "transaction_commit", "transaction_cancel"}

\* C17 as stated: every sysdb_store_ssh_host call, successful or failed,
\* makes exactly one store write and at most one store read, a read only
\* with an alias, and makes no call twice.
StoreOneWriteAlways ==
  StoreCall
  => /\ Cardinality(CallsOf(trace, "store_custom")) = 1
     /\ Cardinality(CallsOf(trace, "search_custom")) <= 1
     /\ HasCalled("search_custom") => call.alias # NULL
     /\ \A fn \in StoreSteps : Cardinality(CallsOf(trace, fn)) <= 1

\* C17: every sysdb_store_ssh_host call makes at most one store write,
\* exactly one when it returns EOK and none when a step before the write
\* failed, and at most one store read, a read only with an alias and
\* always with an alias when it returns EOK; it makes no call twice.
StoreOneWriteAtMost ==
  StoreCall
  => /\ Cardinality(CallsOf(trace, "store_custom")) <= 1
     /\ ret = EOK => HasCalledRet("store_custom", EOK)
     /\ \A i \in CallsOf(trace, "store_custom") :
          \A j \in 1..(i - 1) : ~ StepFailed(trace[j])
     /\ Cardinality(CallsOf(trace, "search_custom")) <= 1
     /\ HasCalled("search_custom") => call.alias # NULL
     /\ (ret = EOK /\ call.alias # NULL) => HasCalled("search_custom")
     /\ \A fn \in StoreSteps : Cardinality(CallsOf(trace, fn)) <= 1
     /\ \A i \in 1..Len(trace) : trace[i].fn \in StoreSteps

StoreNoWriteWitness ==
  /\ StoreCall /\ ret = ENOMEM
  /\ HasCalledRet("search_custom", EOK)
  /\ ~ HasCalled("store_custom")
  /\ HasCalled("transaction_cancel")

\* How many values of the list L equal v.
Occurrences(L, v) == Cardinality({i \in 1..Len(L) : L[i] = v})

\* C18: a successful sysdb_store_ssh_host with the alias x, on an entry
\* whose stored alias values are the list L, writes L itself when x occurs
\* in L and L followed by one x otherwise: repeated values of L are kept,
\* and no value occurs more often than before except x, which goes from
\* no occurrence to one.
MergeKeepsList ==
  (StoreCall /\ ret = EOK /\ call.alias # NULL
     /\ call.attrs[SYSDB_NAME_ALIAS] = <<>>)
  => LET L == AttrOf(pre, call.name, SYSDB_NAME_ALIAS)
         W == db[call.name][SYSDB_NAME_ALIAS]
     IN /\ W = IF \E i \in 1..Len(L) : L[i] = call.alias THEN L
               ELSE L \o <<call.alias>>
        /\ \A v \in RaceAliases :
             Occurrences(W, v) =
               IF v = call.alias /\ Occurrences(L, v) = 0 THEN 1
               ELSE Occurrences(L, v)

MergeKeepsListWitness ==
  /\ StoreCall /\ ret = EOK /\ call.alias = "c"
  /\ call.name \in DOMAIN pre
  /\ pre[call.name][SYSDB_NAME_ALIAS] = <<"a", "b", "a">>
  /\ db[call.name][SYSDB_NAME_ALIAS] = <<"a", "b", "a", "c">>

\* C19 as stated: an entry comes into existence only through a
\* sysdb_store_ssh_host call for a name without an entry and goes only
\* through a delete, so every stored entry has the object class, the name
\* attribute and lastUpdate, and sysdb_update_ssh_known_host_expire
\* succeeds only on a name that has an entry.
EntriesComeFromStore ==
  /\ DOMAIN db \ DOMAIN pre # {} => StoreCall
  /\ DOMAIN pre \ DOMAIN db # {} => call.op = "delete_ssh_host"
  /\ \A n \in DOMAIN db :
       /\ db[n][SYSDB_OBJECTCLASS] # <<>>
       /\ db[n][SYSDB_NAME] # <<>>
       /\ db[n][SYSDB_LAST_UPDATE] # <<>>
  /\ (call.op = "update_expire" /\ ret = EOK) => call.name \in DOMAIN pre

\* C20: a sysdb_store_ssh_host or sysdb_update_ssh_known_host_expire call,
\* successful or failed, leaves every alias value the entry of the name
\* had before the call, and leaves the aliases of the other entries as
\* they were.
AliasesNeverLost ==
  (StoreCall \/ call.op = "update_expire")
  => /\ Range(AttrOf(pre, call.name, SYSDB_NAME_ALIAS))
          \subseteq Range(AttrOf(db, call.name, SYSDB_NAME_ALIAS))
     /\ \A n \in DOMAIN pre \ {call.name} :
          AttrOf(db, n, SYSDB_NAME_ALIAS) = pre[n][SYSDB_NAME_ALIAS]

AliasesNeverLostWitness ==
  /\ CommitFailed
  /\ call.name \in DOMAIN pre
  /\ Range(pre[call.name][SYSDB_NAME_ALIAS]) = {"a"}
  /\ Range(db[call.name][SYSDB_NAME_ALIAS]) = {"a", "b"}

====
